---- MODULE Spec2Model ----
(***************************************************************************)
(* Model of the meeting planner of the time-tools component                *)
(* (src/components/TimeTools.tsx) and of the part of the App that hosts it *)
(* (src/unnamed/part_000).                                                 *)
(*                                                                         *)
(* JavaScript strings are sequences of one-character strings, so that      *)
(* formatting (template literal, zero padding) and parsing (split, Number, *)
(* parseInt) are modelled by what they do.  Instants are counted in        *)
(* seconds since the epoch (a Date's time value is SecMs times as large).  *)
(***************************************************************************)
EXTENDS Integers, Sequences, FiniteSets, TLC

(***************************************************************************)
(* Strings                                                                 *)
(***************************************************************************)
DigitChars == <<"0", "1", "2", "3", "4", "5", "6", "7", "8", "9">>

DigitChar(n) == DigitChars[n + 1]

DigitVal(c) == CHOOSE i \in 0..9 : DigitChars[i + 1] = c

IsDigit(c) == \E i \in 1..10 : DigitChars[i] = c

RECURSIVE Digits(_)
\* the decimal numeral of a non-negative integer ('numeric' formatting)
Digits(n) == IF n < 10 THEN <<DigitChar(n)>>
             ELSE Digits(n \div 10) \o <<DigitChar(n % 10)>>

\* '2-digit' formatting
TwoDigit(n) == IF n < 10 THEN <<"0">> \o Digits(n) ELSE Digits(n)

RECURSIVE NumberAcc(_, _)
NumberAcc(s, acc) == IF s = <<>> THEN acc
                     ELSE NumberAcc(Tail(s), 10 * acc + DigitVal(Head(s)))

\* Number(s) and parseInt(s, 10) on a string of decimal digits ("" is 0 for
\* Number; partVal never passes "" to parseInt, it substitutes '0')
Number(s) == NumberAcc(s, 0)

RECURSIVE SplitAcc(_, _, _)
SplitAcc(s, sep, cur) ==
    IF s = <<>> THEN <<cur>>
    ELSE IF Head(s) = sep THEN <<cur>> \o SplitAcc(Tail(s), sep, <<>>)
    ELSE SplitAcc(Tail(s), sep, Append(cur, Head(s)))

\* String.prototype.split with a one-character separator
Split(s, sep) == SplitAcc(s, sep, <<>>)

\* array destructuring: a missing element is undefined, which is falsy like ''
Elem(a, i) == IF i <= Len(a) THEN a[i] ELSE <<>>

EmptyString == <<>>

(***************************************************************************)
(* Calendar arithmetic of Date.UTC and of the formatter (proleptic         *)
(* Gregorian calendar, days counted from 1970-01-01)                       *)
(***************************************************************************)
SecMs == 1000
MinuteSec == 60
HourSec == 3600
DaySec == 86400

DaysFromCivil(y, m, d) ==
    LET yy  == IF m <= 2 THEN y - 1 ELSE y
        era == yy \div 400
        yoe == yy - era * 400
        mp  == IF m > 2 THEN m - 3 ELSE m + 9
        doy == (153 * mp + 2) \div 5 + d - 1
        doe == yoe * 365 + yoe \div 4 - yoe \div 100 + doy
    IN  era * 146097 + doe - 719468

CivilFromDays(z) ==
    LET zz  == z + 719468
        era == zz \div 146097
        doe == zz - era * 146097
        yoe == (doe - doe \div 1460 + doe \div 36524 - doe \div 146096) \div 365
        doy == doe - (365 * yoe + yoe \div 4 - yoe \div 100)
        mp  == (5 * doy + 2) \div 153
        d   == doy - (153 * mp + 2) \div 5 + 1
        m   == IF mp < 10 THEN mp + 3 ELSE mp - 9
        y   == yoe + era * 400 + (IF m <= 2 THEN 1 ELSE 0)
    IN  [year |-> y, month |-> m, day |-> d]

\* Date.UTC(year, monthIndex, day, hours, minutes) in seconds: out-of-range
\* fields carry over (MakeDay, MakeTime), years 0..99 mean 1900..1999
DateUTC(y, mon, d, h, min) ==
    LET fy == IF 0 <= y /\ y <= 99 THEN 1900 + y ELSE y
        ym == fy + (mon \div 12)
        mn == mon % 12
    IN  (DaysFromCivil(ym, mn + 1, 1) + d - 1) * DaySec + h * HourSec + min * MinuteSec

Abs(x) == IF x < 0 THEN -x ELSE x

(***************************************************************************)
(* The Zone-Aware Formatter (Intl.DateTimeFormat with a timeZone option):  *)
(* the offset rules of the zones for the instants the model uses, late     *)
(* 2023 to early 2025                                                      *)
(***************************************************************************)
ZoneUTC == "UTC"
ZoneNewYork == "America/New_York"
ZoneLondon == "Europe/London"
ZoneKolkata == "Asia/Kolkata"
ZoneSydney == "Australia/Sydney"
ZoneEucla == "Australia/Eucla"
ZoneEtcGMTMinus3 == "Etc/GMT-3"

\* an identifier the formatter does not know
ZoneUnresolvable == "Nowhere/Unknown"

\* the zones the selection controls offer (of COMMON_TIMEZONES)
CommonZones == {ZoneNewYork, ZoneLondon, ZoneKolkata}

\* the zones the host may report as its own
HostZones == {ZoneNewYork, ZoneKolkata}

\* the zones the formatter's rules are modelled for
AllZones == {ZoneUTC, ZoneNewYork, ZoneLondon, ZoneKolkata, ZoneSydney,
             ZoneEucla, ZoneEtcGMTMinus3}

\* new Intl.DateTimeFormat(locale, {timeZone: zone, ...}) throws a RangeError
\* for any other identifier
Resolvable(zone) == zone \in AllZones

\* the completion of a call that threw
RangeError == [threw |-> "RangeError"]

\* the instants at which a zone's offset changes, with the offset in force
\* from that instant on; StdOffset is in force before the first of them
Transitions(zone) ==
    CASE zone = ZoneNewYork ->
           << [at |-> DateUTC(2024, 2, 10, 7, 0), offset |-> -4 * HourSec],
              [at |-> DateUTC(2024, 10, 3, 6, 0), offset |-> -5 * HourSec] >>
      [] zone = ZoneLondon ->
           << [at |-> DateUTC(2024, 2, 31, 1, 0), offset |-> 1 * HourSec],
              [at |-> DateUTC(2024, 9, 27, 1, 0), offset |-> 0] >>
      [] zone = ZoneSydney ->
           << [at |-> DateUTC(2024, 3, 6, 16, 0), offset |-> 10 * HourSec],
              [at |-> DateUTC(2024, 9, 5, 16, 0), offset |-> 11 * HourSec] >>
      [] OTHER -> << >>

StdOffset(zone) ==
    CASE zone = ZoneNewYork -> -5 * HourSec
      [] zone = ZoneLondon  -> 0
      [] zone = ZoneKolkata -> 5 * HourSec + 30 * MinuteSec
      [] zone = ZoneSydney  -> 11 * HourSec
      [] zone = ZoneEucla   -> 8 * HourSec + 45 * MinuteSec
      [] zone = ZoneEtcGMTMinus3 -> 3 * HourSec
      [] OTHER              -> 0

\* the offset in force at t under the transitions tr, std before the first
OffsetUnder(tr, std, t) ==
    IF \A i \in 1..Len(tr) : tr[i].at > t THEN std
    ELSE tr[CHOOSE i \in 1..Len(tr) :
                /\ tr[i].at <= t
                /\ \A j \in 1..Len(tr) : tr[j].at <= t => j <= i].offset

\* the UTC offset of zone at instant t
Offset(zone, t) == OffsetUnder(Transitions(zone), StdOffset(zone), t)

FieldsOf(civil, sod) ==
    [year |-> civil.year, month |-> civil.month, day |-> civil.day,
     hour |-> sod \div HourSec, minute |-> (sod % HourSec) \div MinuteSec,
     second |-> sod % MinuteSec]

FieldsOfLocal(local) == FieldsOf(CivilFromDays(local \div DaySec), local % DaySec)

\* the calendar fields a clock in zone displays at instant t
ZoneFields(t, zone) == FieldsOfLocal(t + Offset(zone, t))

\* the hour cycles hour12: false selects for en-US, by platform: "h24" prints
\* midnight as hour 24 of the day that starts
HourCycles == {"h23", "h24"}

PartsUS(f, hc) ==
    [year   |-> Digits(f.year),
     month  |-> Digits(f.month),
     day    |-> Digits(f.day),
     hour   |-> TwoDigit(IF hc = "h24" /\ f.hour = 0 THEN 24 ELSE f.hour),
     minute |-> TwoDigit(f.minute),
     second |-> TwoDigit(f.second)]

\* new Intl.DateTimeFormat('en-US', {timeZone: zone, year..second: 'numeric',
\* hour12: false}).formatToParts(guess), as a map from part type to value
FormatToPartsUS(t, zone, hc) == PartsUS(ZoneFields(t, zone), hc)

PartsGB(f) ==
    [year   |-> Digits(f.year),
     month  |-> TwoDigit(f.month),
     day    |-> TwoDigit(f.day),
     hour   |-> TwoDigit(f.hour),
     minute |-> TwoDigit(f.minute)]

\* new Intl.DateTimeFormat('en-GB', {timeZone: zone, year: 'numeric', month..
\* minute: '2-digit', hour12: false}).formatToParts(d): en-GB counts hours 0..23
FormatToPartsGB(t, zone) == PartsGB(ZoneFields(t, zone))

(***************************************************************************)
(* The formatter's timeZoneName part for en-US                             *)
(***************************************************************************)
OffsetSign(off) == IF off < 0 THEN <<"-">> ELSE <<"+">>

OffsetMinutes(off) == (Abs(off) % HourSec) \div MinuteSec

GMT == << "G", "M", "T" >>

\* timeZoneName: 'shortOffset', as in GMT-5, GMT+5:30, GMT
ShortOffsetName(off) ==
    IF off = 0 THEN GMT
    ELSE GMT \o OffsetSign(off) \o Digits(Abs(off) \div HourSec)
         \o (IF OffsetMinutes(off) = 0 THEN <<>>
             ELSE <<":">> \o TwoDigit(OffsetMinutes(off)))

\* timeZoneName: 'longOffset', as in GMT-05:00, GMT
LongOffsetName(off) ==
    IF off = 0 THEN GMT
    ELSE GMT \o OffsetSign(off) \o TwoDigit(Abs(off) \div HourSec)
         \o <<":">> \o TwoDigit(OffsetMinutes(off))

\* timeZoneName: 'short': en-US has letter abbreviations for the zones of the
\* United States, for GMT and for UTC, and the offset form for the others
ShortName(zone, off) ==
    CASE zone = ZoneNewYork ->
           IF off = StdOffset(zone) THEN << "E", "S", "T" >> ELSE << "E", "D", "T" >>
      [] zone = ZoneUTC -> << "U", "T", "C" >>
      [] zone = ZoneLondon /\ off = 0 -> GMT
      [] OTHER -> ShortOffsetName(off)

\* timeZoneName: 'long': a zone without a name of its own has the offset form
LongName(zone, off) ==
    CASE zone = ZoneNewYork ->
           IF off = StdOffset(zone)
           THEN << "E", "a", "s", "t", "e", "r", "n", " ", "S", "t", "a",
                "n", "d", "a", "r", "d", " ", "T", "i", "m",
                "e" >>
           ELSE << "E", "a", "s", "t", "e", "r", "n", " ", "D", "a", "y",
                "l", "i", "g", "h", "t", " ", "T", "i", "m",
                "e" >>
      [] zone = ZoneLondon ->
           IF off = 0
           THEN << "G", "r", "e", "e", "n", "w", "i", "c", "h", " ", "M",
                "e", "a", "n", " ", "T", "i", "m", "e" >>
           ELSE << "B", "r", "i", "t", "i", "s", "h", " ", "S", "u", "m",
                "m", "e", "r", " ", "T", "i", "m", "e" >>
      [] zone = ZoneKolkata ->
           << "I", "n", "d", "i", "a", " ", "S", "t", "a", "n", "d", "a",
           "r", "d", " ", "T", "i", "m", "e" >>
      [] zone = ZoneSydney ->
           IF off = StdOffset(zone)
           THEN << "A", "u", "s", "t", "r", "a", "l", "i", "a", "n", " ",
                "E", "a", "s", "t", "e", "r", "n", " ", "D",
                "a", "y", "l", "i", "g", "h", "t", " ", "T",
                "i", "m", "e" >>
           ELSE << "A", "u", "s", "t", "r", "a", "l", "i", "a", "n", " ",
                "E", "a", "s", "t", "e", "r", "n", " ", "S",
                "t", "a", "n", "d", "a", "r", "d", " ", "T",
                "i", "m", "e" >>
      [] zone = ZoneEucla ->
           << "A", "u", "s", "t", "r", "a", "l", "i", "a", "n", " ", "C",
           "e", "n", "t", "r", "a", "l", " ", "W", "e", "s", "t",
           "e", "r", "n", " ", "S", "t", "a", "n", "d", "a", "r",
           "d", " ", "T", "i", "m", "e" >>
      [] zone = ZoneUTC ->
           << "C", "o", "o", "r", "d", "i", "n", "a", "t", "e", "d", " ",
           "U", "n", "i", "v", "e", "r", "s", "a", "l", " ", "T",
           "i", "m", "e" >>
      [] OTHER -> LongOffsetName(off)

NameOfStyle(zone, off, style) ==
    CASE style = "short"       -> ShortName(zone, off)
      [] style = "shortOffset" -> ShortOffsetName(off)
      [] style = "longOffset"  -> LongOffsetName(off)
      [] OTHER                 -> LongName(zone, off)

\* formatter(options): new Intl.DateTimeFormat('en-US', {...options, timeZone})
\* .formatToParts(date).find(p => p.type === 'timeZoneName')?.value || ''
TimeZoneNamePart(t, zone, style) == NameOfStyle(zone, Offset(zone, t), style)

(***************************************************************************)
(* The conversion helpers of TimeTools                                     *)
(***************************************************************************)
Null == [null |-> TRUE]

\* a Date object
DateOf(t) == [time |-> t]

ParsedFields_MonthOneBased(dp, tp) ==
    [y |-> Number(dp[1]), mon |-> Number(dp[2]), d |-> Number(dp[3]),
     h |-> Number(tp[1]), min |-> Number(tp[2])]

\* [y, mon, d] = date.split('-').map(Number); [h, min] = time.split(':').map(Number)
ParsedFields(dp, tp) ==
    [y |-> Number(dp[1]), mon |-> Number(dp[2]) - 1, d |-> Number(dp[3]),
     h |-> Number(tp[1]), min |-> Number(tp[2])]

\* const [date, time] = s.split('T'); if (!date || !time) return null
ParsedParts(date, time) ==
    IF date = EmptyString \/ time = EmptyString THEN Null
    ELSE ParsedFields(Split(date, "-"), Split(time, ":"))

ParsedSplit(parts) == ParsedParts(Elem(parts, 1), Elem(parts, 2))

parseIsoLocal(s) == IF s = EmptyString THEN Null ELSE ParsedSplit(Split(s, "T"))

\* parseInt(parts.find(p => p.type === type)?.value || '0', 10)
partVal(parts, type) ==
    Number(IF type \in DOMAIN parts /\ parts[type] # EmptyString
           THEN parts[type] ELSE <<"0">>)

MaxIter == 3

LoopRuns_Once(i) == i < 1

LoopRuns_Twice(i) == i < 2

LoopRuns_Four(i) == i < 4

\* the loop condition i < 3
LoopRuns(i) == i < MaxIter
ConvergedMs == 1000

NormalizeHour_Kept(gh) == gh

\* if (gh === 24) gh = 0
NormalizeHour(gh) == IF gh = 24 THEN 0 ELSE gh

PartsTime_MonthKept(parts) ==
    DateUTC(partVal(parts, "year"), partVal(parts, "month"),
            partVal(parts, "day"), NormalizeHour(partVal(parts, "hour")),
            partVal(parts, "minute"))

\* Date.UTC(gy, gm, gd, gh, gmin) of the formatted parts
PartsTime(parts) ==
    DateUTC(partVal(parts, "year"), partVal(parts, "month") - 1,
            partVal(parts, "day"), NormalizeHour(partVal(parts, "hour")),
            partVal(parts, "minute"))

\* guessTime: the fields the guess displays in zone, read as UTC fields
GuessTime(guess, zone, hc) == PartsTime(FormatToPartsUS(guess, zone, hc))

RECURSIVE Converge(_, _, _, _, _)
ConvergeStep_CloseWithinHour(guess, desiredTime, zone, hc, i, diff) ==
    IF Abs(diff) <= HourSec THEN guess
    ELSE Converge(guess + diff, desiredTime, zone, hc, i + 1)

ConvergeStep_DoubleShift(guess, desiredTime, zone, hc, i, diff) ==
    IF Abs(diff) < ConvergedMs \div SecMs THEN guess
    ELSE Converge(guess + 2 * diff, desiredTime, zone, hc, i + 1)

\* one iteration, diff = desiredTime - guessTime in seconds: if
\* (Math.abs(diff) < 1000) break, the difference being in milliseconds there
ConvergeStep(guess, desiredTime, zone, hc, i, diff) ==
    IF Abs(diff) < ConvergedMs \div SecMs THEN guess
    ELSE Converge(guess + diff, desiredTime, zone, hc, i + 1)

\* the loop for (i = 0; i < 3; i++) from iteration i on
Converge(guess, desiredTime, zone, hc, i) ==
    IF LoopRuns(i)
    THEN ConvergeStep(guess, desiredTime, zone, hc, i,
                      desiredTime - GuessTime(guess, zone, hc))
    ELSE guess

\* the time value of the parsed fields read as UTC: the first guess and the
\* desired time
NaiveTime(c) == DateUTC(c.y, c.mon, c.d, c.h, c.min)

ResolveFrom_GuessHalfDayLater(start, zone, hc) ==
    DateOf(Converge(start + 12 * HourSec, start, zone, hc, 0))

\* let guess = new Date(Date.UTC(c.y, c.mon, c.d, c.h, c.min)); the loop;
\* return guess
ResolveFrom(start, zone, hc) == DateOf(Converge(start, start, zone, hc, 0))

\* if (!c) return null; the formatter is constructed in the first iteration
\* of the loop, outside any try: its RangeError leaves the function
ResolveParsed(c, zone, hc) ==
    IF c = Null THEN Null
    ELSE IF ~Resolvable(zone) THEN RangeError
    ELSE ResolveFrom(NaiveTime(c), zone, hc)

\* localStringToDate on a platform whose en-US hour cycle is hc
localStringToDateOn(s, zone, hc) == ResolveParsed(parseIsoLocal(s), zone, hc)

\* get(t) = parts.find(p => p.type === t)?.value || '00'
GetPart(parts, type) ==
    IF type \in DOMAIN parts /\ parts[type] # EmptyString
    THEN parts[type] ELSE <<"0", "0">>

\* `${get('year')}-${get('month')}-${get('day')}T${get('hour')}:${get('minute')}`
LocalStringOf(parts) ==
    GetPart(parts, "year") \o <<"-">> \o GetPart(parts, "month") \o <<"-">>
    \o GetPart(parts, "day") \o <<"T">> \o GetPart(parts, "hour") \o <<":">>
    \o GetPart(parts, "minute")

CatchEmpty_Rethrown(completion) == completion

\* try { ... } catch (e) { return '' }
CatchEmpty(completion) == IF completion = RangeError THEN EmptyString ELSE completion

dateToLocalString(d, zone) ==
    CatchEmpty(IF Resolvable(zone) THEN LocalStringOf(FormatToPartsGB(d.time, zone))
               ELSE RangeError)

(***************************************************************************)
(* getAbbreviation                                                         *)
(***************************************************************************)
UpperCase == { "A", "B", "C", "D", "E", "F", "G", "H", "I", "J", "K", "L", "M",
               "N", "O", "P", "Q", "R", "S", "T", "U", "V", "W", "X", "Y", "Z" }
LowerCase == { "a", "b", "c", "d", "e", "f", "g", "h", "i", "j", "k", "l", "m",
               "n", "o", "p", "q", "r", "s", "t", "u", "v", "w", "x", "y", "z" }

\* the characters \w matches
IsWordChar(c) == c \in UpperCase \/ c \in LowerCase \/ IsDigit(c) \/ c = "_"

StartsWith(s, prefix) ==
    Len(s) >= Len(prefix) /\ SubSeq(s, 1, Len(prefix)) = prefix

\* /^GMT[+-]/.test(s) || /^UTC[+-]/.test(s)
isOffsetLike(s) ==
    \E sign \in {"+", "-"} :
        StartsWith(s, GMT \o <<sign>>) \/ StartsWith(s, <<"U", "T", "C">> \o <<sign>>)

\* /\b([A-Z])/ matches at i: a capital letter that starts a word
StartsWord(s, i) == s[i] \in UpperCase /\ (i = 1 \/ ~IsWordChar(s[i - 1]))

RECURSIVE AcronymFrom(_, _)
AcronymFrom(s, i) ==
    IF i > Len(s) THEN <<>>
    ELSE (IF StartsWord(s, i) THEN <<s[i]>> ELSE <<>>) \o AcronymFrom(s, i + 1)

\* longName.match(/\b([A-Z])/g)?.join(''): undefined without a match
Acronym(longName) == AcronymFrom(longName, 1)

AcronymAccepted_AnyLength(acronym) == acronym # EmptyString

\* acronym && acronym.length >= 2 && acronym.length <= 5
AcronymAccepted(acronym) ==
    acronym # EmptyString /\ Len(acronym) >= 2 /\ Len(acronym) <= 5

\* if (longName) { ... if (acronym && ...) abbreviation = acronym }
FromLongName(shortName, longName) ==
    IF longName # EmptyString /\ AcronymAccepted(Acronym(longName))
    THEN Acronym(longName) ELSE shortName

\* let abbreviation = shortName; if (isOffsetLike(shortName)) { ... }: the
\* long name is asked for only then
AbbreviationOf(shortName, longName) ==
    IF isOffsetLike(shortName) THEN FromLongName(shortName, longName) ELSE shortName

\* if (isOffsetLike(abbreviation)) return abbreviation;
\* if (abbreviation === offset) return abbreviation;
\* return `${abbreviation} (${offset})`
LabelOf(abbreviation, offset) ==
    IF isOffsetLike(abbreviation) THEN abbreviation
    ELSE IF abbreviation = offset THEN abbreviation
    ELSE abbreviation \o <<" ", "(">> \o offset \o <<")">>

\* offset = formatter({timeZoneName: 'shortOffset'})
\*          || formatter({timeZoneName: 'longOffset'})
OffsetName(t, zone) ==
    IF TimeZoneNamePart(t, zone, "shortOffset") # EmptyString
    THEN TimeZoneNamePart(t, zone, "shortOffset")
    ELSE TimeZoneNamePart(t, zone, "longOffset")

\* the body of the try block: the first formatter call throws for a zone the
\* formatter does not know
AbbreviationBody(t, zone) ==
    IF ~Resolvable(zone) THEN RangeError
    ELSE LabelOf(AbbreviationOf(TimeZoneNamePart(t, zone, "short"),
                                TimeZoneNamePart(t, zone, "long")),
                 OffsetName(t, zone))

getAbbreviation(date, timeZone) == CatchEmpty(AbbreviationBody(date.time, timeZone))

\* the value of an <input type="datetime-local"> holding these fields
InputValue(y, m, d, h, min) ==
    Digits(y) \o <<"-">> \o TwoDigit(m) \o <<"-">> \o TwoDigit(d) \o <<"T">>
    \o TwoDigit(h) \o <<":">> \o TwoDigit(min)

(***************************************************************************)
(* Host-local Date arithmetic (Date.prototype.setMinutes, getHours,        *)
(* setHours work in the host's own zone)                                   *)
(***************************************************************************)
\* LocalTime(t)
LocalTime(host, t) == t + Offset(host, t)

UTCChoice(host, t1, before, t2, after) ==
    IF Offset(host, t1) = before THEN t1
    ELSE IF Offset(host, t2) = after THEN t2
    ELSE t1

UTCBetween(host, local, before, after) ==
    UTCChoice(host, local - before, before, local - after, after)

\* UTC(local): a local time that is skipped or repeated at a transition is
\* read with the offset in force before the transition
UTCOfLocal(host, local) ==
    UTCBetween(host, local, Offset(host, local - 2 * DaySec),
               Offset(host, local + 2 * DaySec))

MinutesCleared(local) == local - ((local % HourSec) \div MinuteSec) * MinuteSec

\* d.setMinutes(0): seconds and milliseconds stay
SetMinutesZero(host, t) == UTCOfLocal(host, MinutesCleared(LocalTime(host, t)))

\* d.setHours(d.getHours() + 1)
SetHoursPlusOne(host, t) == UTCOfLocal(host, LocalTime(host, t) + HourSec)

(***************************************************************************)
(* Inputs                                                                  *)
(***************************************************************************)
\* wall-clock values typed into the meeting-time fields
\* (scenario 4's two values, a midnight, one value inside New York's
\* spring-forward gap and one inside its fall-back overlap)
EditValues ==
    { InputValue(2024, 3, 1, 10, 0), InputValue(2024, 3, 1, 16, 0),
      InputValue(2024, 1, 15, 0, 0), InputValue(2024, 3, 10, 2, 30),
      InputValue(2024, 11, 3, 1, 30) }

\* the instants at which the session may start: mid-hour with odd seconds, and
\* on the hour, one hour before London's midnight
StartInstants ==
    { DateUTC(2024, 0, 15, 13, 20) + 37, DateUTC(2024, 5, 30, 22, 0) }

MaxTicks == 1

\* runs of the zone-change effect counted after one event
MaxRuns == 3
TickSec == 1

(***************************************************************************)
(* State                                                                   *)
(***************************************************************************)
VARIABLES
    hostZone,          \* the zone the host reports as its own
    hourCycle,         \* the host's en-US hour cycle under hour12: false
    clock,             \* the current instant (what new Date() reads)
    ticks,             \* interval callbacks run so far
    activeTab,         \* App: the sidebar tab
    userTimezone,      \* App: zone of field A
    clientTimezone,    \* App: zone of field B
    phase,             \* TimeTools: "unmounted", "mounting" (rendered, effects
                       \* not yet run) or "live"
    now,               \* TimeTools: the displayed current instant
    userMeetingTime,   \* TimeTools: field A
    clientMeetingTime, \* TimeTools: field B
    lastEdited,        \* TimeTools: the anchor side
    effectPending,     \* the zone-change effect's dependencies changed in the
                       \* last commit, the effect has yet to run
    lastEvent,         \* history: the kind of the last event handled
    anchorBefore,      \* history: lastEdited before that event
    lastEditSide,      \* history: the field of the last edit event, if any
    effectRuns,        \* history: runs of the zone-change effect since the
                       \* last event
    envKey,            \* process.env.API_KEY of the build ('' when unset)
    localStorage,      \* the browser's storage of the origin: item name to value
    apiKey,            \* App: the API key field
    storagePending,    \* App: the storage effect has yet to run (first render,
                       \* or apiKey changed in the last commit)
    emailContent,      \* App: the customer email text
    customInstructions,\* App: the specific idea / prompt text
    isGenerating,      \* App
    response,          \* App: the draft shown, or null
    error,             \* App: the error shown, or null
    inFlight,          \* calls of generateEmailResponse made and not settled,
                       \* in the order made
    keyEntered,        \* history: the last non-empty value typed into the key
                       \* field since the page was loaded, if any
    anchorValue,       \* history: the value the last edit event, or else the
                       \* initial setup, gave the field it was about
    cvPc,              \* conversion run: the step reached
    cvWall,            \* conversion run: the wall-clock value w
    cvFrom,            \* conversion run: the zone w is read in
    cvTo,              \* conversion run: the zone it is converted to
    cvInstant,         \* conversion run: localStringToDate(w, from)
    cvOut,             \* conversion run: the instant rendered in the target zone
    cvLabel,           \* conversion run: the abbreviation label of the
                       \* instant in the target zone
    cvBack,            \* conversion run: cvOut converted back
    loop               \* one call of localStringToDate taken step by step: its
                       \* position, arguments, locals and result, with the
                       \* formatter calls and shifts counted

vars == << hostZone, hourCycle, clock, ticks, activeTab, userTimezone,
           clientTimezone, phase, now, userMeetingTime, clientMeetingTime,
           lastEdited, effectPending, lastEvent, anchorBefore, lastEditSide,
           anchorValue, cvPc, cvWall, cvFrom, cvTo, cvInstant, cvOut, cvLabel,
           cvBack, loop, effectRuns, envKey, localStorage, apiKey,
           storagePending, emailContent, customInstructions, isGenerating,
           response, error, inFlight, keyEntered >>

convVars == << cvPc, cvWall, cvFrom, cvTo, cvInstant, cvOut, cvLabel, cvBack,
               loop >>
sessionVars == << clock, ticks, activeTab, userTimezone, clientTimezone, phase,
                  now, userMeetingTime, clientMeetingTime, lastEdited,
                  effectPending, lastEvent, anchorBefore, lastEditSide,
                  anchorValue, effectRuns >>

genVars == << envKey, localStorage, apiKey, storagePending, emailContent,
              customInstructions, isGenerating, response, error, inFlight,
              keyEntered >>

platformVars == << hostZone, hourCycle >>
appVars == << activeTab, userTimezone, clientTimezone >>
fieldVars == << userMeetingTime, clientMeetingTime, lastEdited >>

localStringToDate(s, zone) == localStringToDateOn(s, zone, hourCycle)

\* convert(wallClock, fromZone, toZone) of the specification: the composition
\* the handlers and effects compute
convert(s, fromZone, toZone) ==
    dateToLocalString(localStringToDate(s, fromZone), toZone)

Tabs == {"compose", "time", "identity"}

\* no stepwise call of localStringToDate
LoopOff ==
    [pc |-> "off", s |-> EmptyString, zone |-> ZoneUTC, real |-> TRUE,
     desiredTime |-> 0, guess |-> 0, i |-> 0, diff |-> 0, queries |-> 0,
     shifts |-> 0, result |-> Null]

\* no conversion run
ConvOff ==
    /\ loop = LoopOff
    /\ cvPc = "off"
    /\ cvWall = EmptyString
    /\ cvFrom = ZoneUTC
    /\ cvTo = ZoneUTC
    /\ cvInstant = Null
    /\ cvOut = EmptyString
    /\ cvLabel = EmptyString
    /\ cvBack = EmptyString

\* the drafting half of App left out: no key, no text, no request
GenOff ==
    /\ envKey = EmptyString
    /\ localStorage = [name \in {} |-> EmptyString]
    /\ apiKey = EmptyString
    /\ storagePending = FALSE
    /\ emailContent = EmptyString
    /\ customInstructions = EmptyString
    /\ isGenerating = FALSE
    /\ response = Null
    /\ error = Null
    /\ inFlight = << >>
    /\ keyEntered = Null

\* App and TimeTools useState initialisers
Init ==
    /\ ConvOff
    /\ hostZone \in HostZones
    /\ hourCycle \in HourCycles
    /\ clock \in StartInstants
    /\ ticks = 0
    /\ activeTab = "compose"
    /\ userTimezone = hostZone
    /\ clientTimezone = ZoneLondon
    /\ phase = "unmounted"
    /\ now = Null
    /\ userMeetingTime = EmptyString
    /\ clientMeetingTime = EmptyString
    /\ lastEdited = "user"
    /\ effectPending = FALSE
    /\ lastEvent = "none"
    /\ anchorBefore = "user"
    /\ lastEditSide = "none"
    /\ anchorValue = EmptyString
    /\ effectRuns = 0
    /\ GenOff

\* no render or effect of TimeTools is outstanding
Settled == phase = "live" /\ ~effectPending

\* an event can be handled: effects are flushed before the next event
Idle == phase # "mounting" /\ ~effectPending

(***************************************************************************)
(* App: tabs and zone selection                                            *)
(***************************************************************************)
\* setActiveTab(tab): TimeTools is rendered only under the time tab; mounting
\* it runs its useState initialisers, unmounting discards its state
setActiveTab(tab) ==
    /\ Idle
    /\ tab # activeTab
    /\ activeTab' = tab
    /\ IF tab = "time"
       THEN /\ phase' = "mounting"
            /\ now' = DateOf(clock)
            /\ lastEvent' = "open"
       ELSE /\ phase' = "unmounted"
            /\ now' = Null
            /\ lastEvent' = "none"
    /\ userMeetingTime' = EmptyString
    /\ clientMeetingTime' = EmptyString
    /\ lastEdited' = "user"
    /\ effectPending' = FALSE
    /\ anchorBefore' = "user"
    /\ lastEditSide' = "none"
    /\ anchorValue' = EmptyString
    /\ effectRuns' = 0
    /\ UNCHANGED << convVars, genVars, platformVars, clock, ticks, userTimezone, clientTimezone >>

\* the zone selects exist under the compose tab (App) and the time tab
\* (TimeTools); a select reports a change of its value only
ZoneSelectShown == activeTab \in {"compose", "time"}

setUserTimezone(tz) ==
    /\ Idle
    /\ ZoneSelectShown
    /\ tz # userTimezone
    /\ userTimezone' = tz
    /\ effectPending' = (phase = "live")
    /\ lastEvent' = IF phase = "live" THEN "zoneUser" ELSE lastEvent
    /\ anchorBefore' = lastEdited
    /\ effectRuns' = 0
    /\ UNCHANGED << convVars, genVars, platformVars, clock, ticks, activeTab, clientTimezone, phase,
                    now, fieldVars, lastEditSide, anchorValue >>

setClientTimezone(tz) ==
    /\ Idle
    /\ ZoneSelectShown
    /\ tz # clientTimezone
    /\ clientTimezone' = tz
    /\ effectPending' = (phase = "live")
    /\ lastEvent' = IF phase = "live" THEN "zoneClient" ELSE lastEvent
    /\ anchorBefore' = lastEdited
    /\ effectRuns' = 0
    /\ UNCHANGED << convVars, genVars, platformVars, clock, ticks, activeTab, userTimezone, phase,
                    now, fieldVars, lastEditSide, anchorValue >>

(***************************************************************************)
(* TimeTools: effects and handlers                                         *)
(***************************************************************************)
\* const absDate = localStringToDate(val, fromZone);
\* if (absDate) setOther(dateToLocalString(absDate, toZone));
\* (the zones of a session are those of the selection controls and the
\* host's own, which the formatter knows: localStringToDate does not throw)
DeriveFrom(absDate, toZone, current) ==
    IF absDate # Null THEN dateToLocalString(absDate, toZone) ELSE current

Derive(val, fromZone, toZone, current) ==
    DeriveFrom(localStringToDate(val, fromZone), toZone, current)

\* initDate: new Date(), setMinutes(0), setHours(getHours() + 1)
InitDate(host, t) == DateOf(SetHoursPlusOne(host, SetMinutesZero(host, t)))

\* the effects of the first render: the initial setup writes both fields; the
\* timer is started; the zone-change effect sees the fields of the first
\* render, which are empty, and does nothing
MountEffects ==
    /\ phase = "mounting"
    /\ userMeetingTime' = dateToLocalString(InitDate(hostZone, clock), userTimezone)
    /\ clientMeetingTime' =
           Derive(userMeetingTime', userTimezone, clientTimezone, clientMeetingTime)
    /\ phase' = "live"
    /\ effectPending' =
           (userMeetingTime' # userMeetingTime \/ clientMeetingTime' # clientMeetingTime)
    /\ lastEvent' = "mount"
    /\ anchorValue' = userMeetingTime'
    /\ effectRuns' = 0
    /\ UNCHANGED << convVars, genVars, platformVars, clock, ticks, appVars, now, lastEdited,
                    anchorBefore, lastEditSide >>

Tick_Reconverts ==
    /\ Settled
    /\ ticks < MaxTicks
    /\ clock' = clock + TickSec
    /\ ticks' = ticks + 1
    /\ now' = DateOf(clock')
    /\ effectPending' = TRUE
    /\ UNCHANGED << convVars, genVars, platformVars, appVars, phase, fieldVars,
                    lastEvent, anchorBefore, lastEditSide, anchorValue,
                    effectRuns >>

\* setInterval(() => setNow(new Date()), 1000): now is no dependency of the
\* zone-change effect
Tick ==
    /\ Settled
    /\ ticks < MaxTicks
    /\ clock' = clock + TickSec
    /\ ticks' = ticks + 1
    /\ now' = DateOf(clock')
    /\ UNCHANGED << convVars, genVars, platformVars, appVars, phase, fieldVars, effectPending,
                    lastEvent, anchorBefore, lastEditSide, anchorValue,
                    effectRuns >>

AnchorAfterEdit_AlwaysUser(field, val) == "user"

AnchorAfterEdit_WhenFilled(field, val) ==
    IF val = EmptyString THEN lastEdited ELSE field

\* setLastEdited('user') / setLastEdited('client'), whatever the value
AnchorAfterEdit(field, val) == field

OtherAfterEdit_KeepOnClear(val, fromZone, toZone, current) ==
    IF val # EmptyString THEN Derive(val, fromZone, toZone, current) ELSE current

\* if (val) { ...derive the other field... } else { setOther('') }
OtherAfterEdit(val, fromZone, toZone, current) ==
    IF val # EmptyString THEN Derive(val, fromZone, toZone, current)
    ELSE EmptyString

\* what the datetime-local inputs can report: a wall-clock value or ''
FieldInputs == EditValues \cup {EmptyString}

handleUserTimeChange(val) ==
    /\ Settled
    /\ val # userMeetingTime
    /\ userMeetingTime' = val
    /\ lastEdited' = AnchorAfterEdit("user", val)
    /\ clientMeetingTime' =
           OtherAfterEdit(val, userTimezone, clientTimezone, clientMeetingTime)
    /\ effectPending' = (fieldVars' # fieldVars)
    /\ lastEvent' = "editUser"
    /\ anchorBefore' = lastEdited
    /\ lastEditSide' = "user"
    /\ anchorValue' = val
    /\ effectRuns' = 0
    /\ UNCHANGED << convVars, genVars, platformVars, clock, ticks, appVars, phase, now >>

handleClientTimeChange(val) ==
    /\ Settled
    /\ val # clientMeetingTime
    /\ clientMeetingTime' = val
    /\ lastEdited' = AnchorAfterEdit("client", val)
    /\ userMeetingTime' =
           OtherAfterEdit(val, clientTimezone, userTimezone, userMeetingTime)
    /\ effectPending' = (fieldVars' # fieldVars)
    /\ lastEvent' = "editClient"
    /\ anchorBefore' = lastEdited
    /\ lastEditSide' = "client"
    /\ anchorValue' = val
    /\ effectRuns' = 0
    /\ UNCHANGED << convVars, genVars, platformVars, clock, ticks, appVars, phase, now >>

UserIsAnchor == lastEdited = "user" /\ userMeetingTime # EmptyString
ClientIsAnchor == ~UserIsAnchor /\ lastEdited = "client" /\ clientMeetingTime # EmptyString

\* field B re-derived from its own value
EffectClient_FromItself ==
    IF UserIsAnchor
    THEN Derive(clientMeetingTime, userTimezone, clientTimezone, clientMeetingTime)
    ELSE clientMeetingTime

EffectClient_FromOwnZone ==
    IF UserIsAnchor
    THEN Derive(userMeetingTime, clientTimezone, clientTimezone, clientMeetingTime)
    ELSE clientMeetingTime

\* the first branch of the zone-change effect: field B from field A
EffectClient ==
    IF UserIsAnchor
    THEN Derive(userMeetingTime, userTimezone, clientTimezone, clientMeetingTime)
    ELSE clientMeetingTime

\* field A re-derived from field B whichever field is the anchor
EffectUser_WhateverAnchor ==
    IF clientMeetingTime # EmptyString
    THEN Derive(clientMeetingTime, clientTimezone, userTimezone, userMeetingTime)
    ELSE userMeetingTime

EffectUser_ZonesOfFirstBranch ==
    IF ClientIsAnchor
    THEN Derive(clientMeetingTime, userTimezone, clientTimezone, userMeetingTime)
    ELSE userMeetingTime

\* the second branch: field A from field B
EffectUser ==
    IF ClientIsAnchor
    THEN Derive(clientMeetingTime, clientTimezone, userTimezone, userMeetingTime)
    ELSE userMeetingTime

\* useEffect(..., [userTimezone, clientTimezone, lastEdited, userMeetingTime,
\* clientMeetingTime, ...]): runs after a commit that changed a dependency; a
\* state setter given the value the state already has causes no new render
ZoneChangeEffect ==
    /\ phase = "live"
    /\ effectPending
    /\ clientMeetingTime' = EffectClient
    /\ userMeetingTime' = EffectUser
    /\ effectPending' =
           (userMeetingTime' # userMeetingTime \/ clientMeetingTime' # clientMeetingTime)
    /\ effectRuns' = IF effectRuns < MaxRuns THEN effectRuns + 1 ELSE effectRuns
    /\ UNCHANGED << convVars, genVars, platformVars, clock, ticks, appVars, phase, now, lastEdited,
                    lastEvent, anchorBefore, lastEditSide, anchorValue >>

Next ==
    \/ \E tab \in Tabs : setActiveTab(tab)
    \/ \E tz \in CommonZones : setUserTimezone(tz)
    \/ \E tz \in CommonZones : setClientTimezone(tz)
    \/ MountEffects
    \/ Tick
    \/ \E val \in FieldInputs : handleUserTimeChange(val)
    \/ \E val \in FieldInputs : handleClientTimeChange(val)
    \/ ZoneChangeEffect

Spec == Init /\ [][Next]_vars

(***************************************************************************)
(* App: the API key, the two texts and the drafting request                *)
(***************************************************************************)
WhiteSpace == {" ", "\n", "\t"}

RECURSIVE TrimStart(_)
TrimStart(s) ==
    IF s # EmptyString /\ Head(s) \in WhiteSpace THEN TrimStart(Tail(s)) ELSE s

RECURSIVE TrimEnd(_)
TrimEnd(s) ==
    IF s # EmptyString /\ s[Len(s)] \in WhiteSpace
    THEN TrimEnd(SubSeq(s, 1, Len(s) - 1))
    ELSE s

\* String.prototype.trim
Trim(s) == TrimEnd(TrimStart(s))

\* the storage of the origin: a map from item names to values
NoItems == [name \in {} |-> EmptyString]
KeyItem == "gemini_api_key"

HasItem(storage, name) == name \in DOMAIN storage

setItem(storage, name, value) ==
    [n \in DOMAIN storage \cup {name} |-> IF n = name THEN value ELSE storage[n]]

\* process.env.API_KEY || localStorage.getItem('gemini_api_key') || ''
InitialKey(env, storage) ==
    IF env # EmptyString THEN env
    ELSE IF HasItem(storage, KeyItem) /\ storage[KeyItem] # EmptyString
         THEN storage[KeyItem]
         ELSE EmptyString

StoredAfter_Always(storage, key) == setItem(storage, KeyItem, key)

\* if (apiKey) localStorage.setItem('gemini_api_key', apiKey)
StoredAfter(storage, key) ==
    IF key # EmptyString THEN setItem(storage, KeyItem, key) ELSE storage

\* --- services/geminiService: generateEmailResponse ---
Error(message) == [isError |-> TRUE, message |-> message]

MissingKeyMessage ==
    "API Key is missing. Please enter your API key in the configuration section."
NoTextMessage == "No response text generated"
SyntaxErrorMessage == "Unexpected end of JSON input"

isReply_Untrimmed(content) == content # EmptyString

\* emailContent && emailContent.trim().length > 0
isReply(content) == content # EmptyString /\ Len(Trim(content)) > 0

\* context.customInstructions || "No specific custom instructions provided..."
NoInstructions ==
    << "No specific custom instructions provided. Follow standard best practices." >>

InstructionsOrDefault(instructions) ==
    IF instructions # EmptyString THEN instructions ELSE NoInstructions

\* the prompt: which of the two templates, and the texts put into it
PromptOf(request) ==
    IF isReply(request.emailContent)
    THEN [kind |-> "reply", emailContent |-> request.emailContent,
          instructions |-> InstructionsOrDefault(request.customInstructions)]
    ELSE [kind |-> "new", emailContent |-> EmptyString,
          instructions |-> request.customInstructions]

\* the call up to its await: the key check, the client, the prompt, the
\* request to the API
generateEmailResponse(request, key) ==
    IF key = EmptyString
    THEN [pc |-> "threw", client |-> FALSE, key |-> key, request |-> request,
          thrown |-> Error(MissingKeyMessage)]
    ELSE [pc |-> "awaiting", client |-> TRUE, key |-> key, request |-> request,
          prompt |-> PromptOf(request)]

\* the lexemes of a run of three backquotes, bare and followed by "json"
Fence == "[fence]"
FenceJson == "[fence]json"

\* text.replace(/```json\n?|\n?```/g, ''); a text is a sequence of lexemes
RECURSIVE StripFences(_)
StripFences(t) ==
    IF t = << >> THEN << >>
    ELSE IF Head(t) = FenceJson
    THEN IF Len(t) > 1 /\ t[2] = "\n" THEN StripFences(SubSeq(t, 3, Len(t)))
         ELSE StripFences(Tail(t))
    ELSE IF Head(t) = "\n" /\ Len(t) > 1 /\ t[2] = Fence
    THEN StripFences(SubSeq(t, 3, Len(t)))
    ELSE IF Head(t) = Fence THEN StripFences(Tail(t))
    ELSE << Head(t) >> \o StripFences(Tail(t))

Quote == "\""

\* a string literal starts at lexeme i
IsStringAt(t, i) == i + 2 <= Len(t) /\ t[i] = Quote /\ t[i + 2] = Quote

SyntaxError == [threw |-> Error(SyntaxErrorMessage)]

WithMember(obj, name, value) ==
    [n \in DOMAIN obj \cup {name} |-> IF n = name THEN value ELSE obj[n]]

\* the members of an object from lexeme i on, up to the closing brace
RECURSIVE ParseMembers(_, _, _)
ParseMembers(t, i, obj) ==
    IF IsStringAt(t, i) /\ i + 3 <= Len(t) /\ t[i + 3] = ":" /\ IsStringAt(t, i + 4)
    THEN IF i + 7 = Len(t) /\ t[i + 7] = "}"
         THEN [returned |-> WithMember(obj, t[i + 1], t[i + 5])]
         ELSE IF i + 7 < Len(t) /\ t[i + 7] = ","
         THEN ParseMembers(t, i + 8, WithMember(obj, t[i + 1], t[i + 5]))
         ELSE SyntaxError
    ELSE SyntaxError

\* JSON.parse of an object of string members
JSONParse(t) ==
    IF Len(t) >= 2 /\ t[1] = "{"
    THEN IF Len(t) = 2 /\ t[2] = "}" THEN [returned |-> NoItems]
         ELSE ParseMembers(t, 2, NoItems)
    ELSE SyntaxError

\* the call from the API's answer on: the text is cleaned and parsed; whatever
\* is thrown is logged and thrown again
Finish(outcome) ==
    IF "rejected" \in DOMAIN outcome THEN [threw |-> outcome.rejected]
    ELSE IF outcome.text # EmptyString
    THEN JSONParse(Trim(StripFences(outcome.text)))
    ELSE [threw |-> Error(NoTextMessage)]

Completion(call, outcome) ==
    IF call.pc = "threw" THEN [threw |-> call.thrown] ELSE Finish(outcome)

\* what the API may answer with
DraftJson ==
    << "{", Quote, "subject", Quote, ":", Quote, "Re: order", Quote, ",",
       Quote, "body", Quote, ":", Quote, "Hello<br/>Alex", Quote, "}" >>
FencedJson == << FenceJson, "\n" >> \o DraftJson \o << "\n", Fence >>
TruncatedJson == SubSeq(DraftJson, 1, 10)
ResponseTexts == { DraftJson, FencedJson, TruncatedJson, EmptyString }

ApiOutcomes ==
    { [text |-> t] : t \in ResponseTexts }
        \cup { [rejected |-> Error("API key not valid")],
               [rejected |-> [isError |-> FALSE, message |-> "aborted"]] }

\* --- App ---
MissingKeyError ==
    [message |-> "API Key is missing. Please enter it in the configuration section below."]
ValidationError ==
    [message |-> "Please provide either the Customer Email Content (to reply) or a Specific Idea/Prompt (to create a new email)."]

\* e instanceof Error ? e.message : "Failed to generate response"
ErrorMessage(e) == IF e.isError THEN e.message ELSE "Failed to generate response"

ErrorText_Bare(e) == [message |-> ErrorMessage(e)]

\* `Error: ${errorMessage}.`
ErrorText(e) == [message |-> "Error: " \o ErrorMessage(e) \o "."]

KeyMissing_Never(key) == FALSE

\* !apiKey
KeyMissing(key) == key = EmptyString

HasText_Untrimmed(s) == Len(s) > 0

\* s.trim().length > 0
HasText(s) == Len(Trim(s)) > 0

\* what is typed into the key field and into the two text areas
K0 == << "A", "I", "z", "a", "0" >>
K1 == << "A", "I", "z", "a", "1" >>
K2 == << "A", "I", "z", "a", "2" >>
EnvKeys == { EmptyString, K0 }
KeyInputs == { EmptyString, K1, K2 }
TextInputs == { EmptyString, << " ", "\n" >>, << " ", "h", "i", " " >> }

\* everything but the drafting state and the kind of the last event
genFrame ==
    << convVars, platformVars, clock, ticks, userTimezone, clientTimezone,
       phase, now, fieldVars, effectPending, anchorBefore, lastEditSide,
       anchorValue, effectRuns >>

\* an event of App can be handled: its effects are flushed before the next
AppIdle == Idle /\ ~storagePending

ComposeShown == activeTab = "compose"

setApiKey(val) ==
    /\ AppIdle
    /\ ComposeShown
    /\ val # apiKey
    /\ apiKey' = val
    /\ storagePending' = TRUE
    /\ keyEntered' = IF val # EmptyString THEN [key |-> val] ELSE keyEntered
    /\ lastEvent' = "key"
    /\ UNCHANGED << genFrame, activeTab, envKey, localStorage, emailContent,
                    customInstructions, isGenerating, response, error, inFlight >>

\* useEffect(() => { if (apiKey) localStorage.setItem(...) }, [apiKey])
StorageEffect ==
    /\ storagePending
    /\ localStorage' = StoredAfter(localStorage, apiKey)
    /\ storagePending' = FALSE
    /\ UNCHANGED << genFrame, activeTab, lastEvent, envKey, apiKey, emailContent,
                    customInstructions, isGenerating, response, error, inFlight,
                    keyEntered >>

setEmailContent(val) ==
    /\ AppIdle
    /\ ComposeShown
    /\ val # emailContent
    /\ emailContent' = val
    /\ lastEvent' = "text"
    /\ UNCHANGED << genFrame, activeTab, envKey, localStorage, apiKey,
                    storagePending, customInstructions, isGenerating, response,
                    error, inFlight, keyEntered >>

setCustomInstructions(val) ==
    /\ AppIdle
    /\ ComposeShown
    /\ val # customInstructions
    /\ customInstructions' = val
    /\ lastEvent' = "text"
    /\ UNCHANGED << genFrame, activeTab, envKey, localStorage, apiKey,
                    storagePending, emailContent, isGenerating, response, error,
                    inFlight, keyEntered >>

\* the request of the current render
Request == [emailContent |-> emailContent, customInstructions |-> customInstructions]

\* handleGenerate up to its await; button is the control it was called from
handleGenerate(button) ==
    /\ lastEvent' = button
    /\ IF KeyMissing(apiKey)
       THEN /\ error' = MissingKeyError
            /\ UNCHANGED << isGenerating, response, inFlight >>
       ELSE IF ~HasText(emailContent) /\ ~HasText(customInstructions)
       THEN /\ error' = ValidationError
            /\ UNCHANGED << isGenerating, response, inFlight >>
       ELSE /\ isGenerating' = TRUE
            /\ error' = Null
            /\ response' = Null
            /\ inFlight' = Append(inFlight, generateEmailResponse(Request, apiKey))
    /\ UNCHANGED << genFrame, activeTab, envKey, localStorage, apiKey,
                    storagePending, emailContent, customInstructions, keyEntered >>

GenerateEnabled_Always == TRUE

\* <button onClick={handleGenerate} disabled={isGenerating}>
GenerateEnabled == ~isGenerating

clickGenerate ==
    /\ AppIdle
    /\ ComposeShown
    /\ GenerateEnabled
    /\ handleGenerate("generate")

\* {!response ? (placeholder) : (... <button onClick={handleGenerate}> ...)}
RegenerateShown == response # Null

clickRegenerate ==
    /\ AppIdle
    /\ RegenerateShown
    /\ handleGenerate("regenerate")

Without(s, i) == SubSeq(s, 1, i - 1) \o SubSeq(s, i + 1, Len(s))

ResponseAfter(completion, current) ==
    IF "returned" \in DOMAIN completion THEN completion.returned ELSE current

ErrorAfter(completion, current) ==
    IF "threw" \in DOMAIN completion THEN ErrorText(completion.threw) ELSE current

\* handleGenerate from its await on: the call i settles with the outcome
Settle(i, outcome) ==
    /\ response' = ResponseAfter(Completion(inFlight[i], outcome), response)
    /\ error' = ErrorAfter(Completion(inFlight[i], outcome), error)
    /\ isGenerating' = FALSE
    /\ inFlight' = Without(inFlight, i)
    /\ lastEvent' = "settle"
    /\ UNCHANGED << genFrame, activeTab, envKey, localStorage, apiKey,
                    storagePending, emailContent, customInstructions, keyEntered >>

ApiSettles ==
    /\ AppIdle
    /\ \E i \in DOMAIN inFlight, outcome \in ApiOutcomes : Settle(i, outcome)

\* the tabs that leave the planner closed
selectTab(tab) == setActiveTab(tab)

\* the page is loaded again: App's state is initialised anew, the calls in
\* flight are gone with the old page, the storage stays
reload ==
    /\ AppIdle
    /\ activeTab' = "compose"
    /\ apiKey' = InitialKey(envKey, localStorage)
    /\ storagePending' = TRUE
    /\ emailContent' = EmptyString
    /\ customInstructions' = EmptyString
    /\ isGenerating' = FALSE
    /\ response' = Null
    /\ error' = Null
    /\ inFlight' = << >>
    /\ keyEntered' = Null
    /\ lastEvent' = "load"
    /\ UNCHANGED << genFrame, envKey, localStorage >>

InitApp ==
    /\ ConvOff
    /\ hostZone = ZoneNewYork
    /\ hourCycle = "h23"
    /\ clock \in StartInstants
    /\ ticks = 0
    /\ activeTab = "compose"
    /\ userTimezone = hostZone
    /\ clientTimezone = ZoneLondon
    /\ phase = "unmounted"
    /\ now = Null
    /\ userMeetingTime = EmptyString
    /\ clientMeetingTime = EmptyString
    /\ lastEdited = "user"
    /\ effectPending = FALSE
    /\ lastEvent = "load"
    /\ anchorBefore = "user"
    /\ lastEditSide = "none"
    /\ anchorValue = EmptyString
    /\ effectRuns = 0
    /\ envKey \in EnvKeys
    /\ localStorage = NoItems
    /\ apiKey = InitialKey(envKey, localStorage)
    /\ storagePending = TRUE
    /\ emailContent = EmptyString
    /\ customInstructions = EmptyString
    /\ isGenerating = FALSE
    /\ response = Null
    /\ error = Null
    /\ inFlight = << >>
    /\ keyEntered = Null

NextApp ==
    \/ \E tab \in {"compose", "identity"} : selectTab(tab)
    \/ \E val \in KeyInputs : setApiKey(val)
    \/ StorageEffect
    \/ \E val \in TextInputs : setEmailContent(val)
    \/ \E val \in TextInputs : setCustomInstructions(val)
    \/ clickGenerate
    \/ clickRegenerate
    \/ ApiSettles
    \/ reload

SpecApp == InitApp /\ [][NextApp]_vars

(***************************************************************************)
(* The session in a browser that has no datetime-local control: the two    *)
(* fields are text inputs and report whatever string is typed              *)
(***************************************************************************)
\* strings that are no wall-clock value: a date without a time
MalformedInputs == { Digits(2024) \o <<"-">> \o TwoDigit(3) \o <<"-">> \o TwoDigit(1) }

InitText == Init /\ hostZone = ZoneNewYork /\ hourCycle = "h23"

NextText ==
    \/ Next
    \/ \E val \in MalformedInputs : handleUserTimeChange(val)
    \/ \E val \in MalformedInputs : handleClientTimeChange(val)

SpecText == InitText /\ [][NextText]_vars

(***************************************************************************)
(* The conversion helpers on their own: one run reads a wall-clock value   *)
(* in one zone, resolves it, renders it in another zone and converts the   *)
(* result back                                                             *)
(***************************************************************************)
\* ordinary days, and the days of the 2024 transitions of New York (03-10,
\* 11-03), London (03-31, 10-27) and Sydney (04-07, 10-06)
ConvDates == { <<2024, 1, 15>>, <<2024, 2, 29>>, <<2024, 3, 10>>,
               <<2024, 3, 31>>, <<2024, 4, 7>>, <<2024, 7, 15>>,
               <<2024, 10, 6>>, <<2024, 10, 27>>, <<2024, 11, 3>>,
               <<2024, 12, 31>> }
ConvHours == {0, 1, 2, 3, 5, 9, 14, 23}
ConvMinutes == {0, 30}

\* the zones a run reads its value in, and those it renders the instant in
ConvSources == {ZoneUTC, ZoneNewYork, ZoneLondon, ZoneKolkata, ZoneSydney,
                ZoneUnresolvable}
ConvTargets == AllZones \cup {ZoneUnresolvable}

ConvWalls ==
    { InputValue(dt[1], dt[2], dt[3], h, m) :
          dt \in ConvDates, h \in ConvHours, m \in ConvMinutes }

InitConv ==
    /\ hostZone = ZoneNewYork
    /\ hourCycle \in HourCycles
    /\ clock = 0
    /\ ticks = 0
    /\ activeTab = "compose"
    /\ userTimezone = hostZone
    /\ clientTimezone = ZoneLondon
    /\ phase = "unmounted"
    /\ now = Null
    /\ userMeetingTime = EmptyString
    /\ clientMeetingTime = EmptyString
    /\ lastEdited = "user"
    /\ effectPending = FALSE
    /\ lastEvent = "none"
    /\ anchorBefore = "user"
    /\ lastEditSide = "none"
    /\ anchorValue = EmptyString
    /\ effectRuns = 0
    /\ GenOff
    /\ loop = LoopOff
    /\ cvPc = "start"
    /\ cvWall \in ConvWalls
    /\ cvFrom \in ConvSources
    /\ cvTo \in ConvTargets
    /\ cvInstant = Null
    /\ cvOut = EmptyString
    /\ cvLabel = EmptyString
    /\ cvBack = EmptyString

\* absDate = localStringToDate(w, from): a Date, or the call throws and the
\* run ends there
ConvResolved(completion) ==
    IF completion = RangeError
    THEN cvPc' = "threw" /\ cvInstant' = cvInstant
    ELSE cvPc' = "resolved" /\ cvInstant' = completion

ConvResolve ==
    /\ cvPc = "start"
    /\ ConvResolved(localStringToDate(cvWall, cvFrom))
    /\ UNCHANGED << genVars, platformVars, sessionVars, loop, cvWall, cvFrom, cvTo, cvOut,
                    cvLabel, cvBack >>

\* if (absDate): dateToLocalString(absDate, to) and getAbbreviation(absDate, to)
\* for display
ConvRender ==
    /\ cvPc = "resolved"
    /\ cvInstant # Null
    /\ cvOut' = dateToLocalString(cvInstant, cvTo)
    /\ cvLabel' = getAbbreviation(cvInstant, cvTo)
    /\ cvPc' = "rendered"
    /\ UNCHANGED << genVars, platformVars, sessionVars, loop, cvWall, cvFrom, cvTo, cvInstant,
                    cvBack >>

\* the result converted back, if (val): convert(convert(w, from, to), to, from)
ConvBack ==
    /\ cvPc = "rendered"
    /\ cvOut # EmptyString
    /\ cvBack' = convert(cvOut, cvTo, cvFrom)
    /\ cvPc' = "done"
    /\ UNCHANGED << genVars, platformVars, sessionVars, loop, cvWall, cvFrom, cvTo, cvInstant,
                    cvOut, cvLabel >>

NextConv == ConvResolve \/ ConvRender \/ ConvBack

SpecConv == InitConv /\ [][NextConv]_vars

(***************************************************************************)
(* One call of localStringToDate taken step by step, against a formatter   *)
(* that may report any offset at each call: either the offset the zone     *)
(* really has at the guess, or one of ReportedOffsets                      *)
(***************************************************************************)
ReportedOffsets ==
    { -14 * HourSec, -5 * HourSec, 0, 5 * HourSec + 30 * MinuteSec, 14 * HourSec }

\* the strings the call is made with
LoopInputs == EditValues \cup {EmptyString}

InitLoop ==
    /\ hostZone = ZoneNewYork
    /\ hourCycle \in HourCycles
    /\ clock = 0
    /\ ticks = 0
    /\ activeTab = "compose"
    /\ userTimezone = hostZone
    /\ clientTimezone = ZoneLondon
    /\ phase = "unmounted"
    /\ now = Null
    /\ userMeetingTime = EmptyString
    /\ clientMeetingTime = EmptyString
    /\ lastEdited = "user"
    /\ effectPending = FALSE
    /\ lastEvent = "none"
    /\ anchorBefore = "user"
    /\ lastEditSide = "none"
    /\ anchorValue = EmptyString
    /\ effectRuns = 0
    /\ GenOff
    /\ cvPc = "off"
    /\ cvWall = EmptyString
    /\ cvFrom = ZoneUTC
    /\ cvTo = ZoneUTC
    /\ cvInstant = Null
    /\ cvOut = EmptyString
    /\ cvLabel = EmptyString
    /\ cvBack = EmptyString
    /\ \E s \in LoopInputs, zone \in {ZoneNewYork, ZoneKolkata} :
           loop = [LoopOff EXCEPT !.pc = "call", !.s = s, !.zone = zone]

LoopFrame == UNCHANGED << genVars, platformVars, sessionVars, cvPc, cvWall, cvFrom, cvTo,
                          cvInstant, cvOut, cvLabel, cvBack >>

\* const c = parseIsoLocal(s); if (!c) return null;
\* let guess = new Date(Date.UTC(c.y, c.mon, c.d, c.h, c.min))
LoopEnterWith(c) ==
    loop' = IF c = Null
            THEN [loop EXCEPT !.pc = "returned", !.result = Null]
            ELSE [loop EXCEPT !.pc = "test", !.guess = NaiveTime(c),
                              !.desiredTime = NaiveTime(c)]

LoopEnter ==
    /\ loop.pc = "call"
    /\ LoopEnterWith(parseIsoLocal(loop.s))
    /\ LoopFrame

\* the body of the loop up to diff = desiredTime - guessTime, the formatter
\* reporting the fields of the guess under the offset off
LoopQuery(off) ==
    /\ loop.pc = "test"
    /\ LoopRuns(loop.i)
    /\ loop' = [loop EXCEPT
                   !.pc = "queried",
                   !.queries = @ + 1,
                   !.real = @ /\ off = Offset(loop.zone, loop.guess),
                   !.diff = loop.desiredTime
                            - PartsTime(PartsUS(FieldsOfLocal(loop.guess + off),
                                                hourCycle))]
    /\ LoopFrame

\* if (Math.abs(diff) < 1000) break; ... return guess
LoopBreak ==
    /\ loop.pc = "queried"
    /\ Abs(loop.diff) < ConvergedMs \div SecMs
    /\ loop' = [loop EXCEPT !.pc = "returned", !.result = DateOf(loop.guess)]
    /\ LoopFrame

\* guess = new Date(guess.getTime() + diff); i++
LoopShift ==
    /\ loop.pc = "queried"
    /\ ~(Abs(loop.diff) < ConvergedMs \div SecMs)
    /\ loop' = [loop EXCEPT !.pc = "test", !.guess = @ + loop.diff,
                            !.shifts = @ + 1, !.i = @ + 1]
    /\ LoopFrame

\* the loop condition fails: return guess
LoopExit ==
    /\ loop.pc = "test"
    /\ ~LoopRuns(loop.i)
    /\ loop' = [loop EXCEPT !.pc = "returned", !.result = DateOf(loop.guess)]
    /\ LoopFrame

NextLoop ==
    \/ LoopEnter
    \/ \E off \in ReportedOffsets \cup {Offset(loop.zone, loop.guess)} : LoopQuery(off)
    \/ LoopBreak
    \/ LoopShift
    \/ LoopExit

SpecLoop == InitLoop /\ [][NextLoop]_vars

(***************************************************************************)
(* Properties of the two-field synchronisation (under Spec)                *)
(***************************************************************************)
V(h, min) == InputValue(2024, 3, 1, h, min)

AfterEdit == lastEvent \in {"editUser", "editClient"}
AfterZoneChange == lastEvent \in {"zoneUser", "zoneClient"}

\* C1: once the update after an edit to a non-empty wall-clock value has
\* settled, the edited field is the anchor and holds exactly the typed value,
\* and the other field is the typed value converted from the edited field's
\* zone to the other field's zone.
C1_EditAnchorsAndConverts ==
    (Settled /\ AfterEdit /\ anchorValue # EmptyString) =>
        IF lastEvent = "editUser"
        THEN /\ lastEdited = "user"
             /\ userMeetingTime = anchorValue
             /\ clientMeetingTime = convert(anchorValue, userTimezone, clientTimezone)
        ELSE /\ lastEdited = "client"
             /\ clientMeetingTime = anchorValue
             /\ userMeetingTime = convert(anchorValue, clientTimezone, userTimezone)

\* an edit of field B to 16:00 in Kolkata has settled, field A (New York) shows
\* 05:30
C1_Witness ==
    /\ Settled
    /\ lastEvent = "editClient"
    /\ lastEdited = "client"
    /\ clientTimezone = ZoneKolkata
    /\ userTimezone = ZoneNewYork
    /\ clientMeetingTime = V(16, 0)
    /\ userMeetingTime = V(5, 30)

\* C2: once the update after a change of either zone has settled, the anchor
\* side and the anchored field's value are what they were before the change,
\* and the other field is the anchored value converted from the anchored
\* field's zone to the other zone, under the zones now selected.
C2_ZoneChangeRederivesOther ==
    (Settled /\ AfterZoneChange) =>
        /\ lastEdited = anchorBefore
        /\ IF lastEdited = "user"
           THEN /\ userMeetingTime = anchorValue
                /\ clientMeetingTime =
                       IF anchorValue = EmptyString THEN EmptyString
                       ELSE convert(anchorValue, userTimezone, clientTimezone)
           ELSE /\ clientMeetingTime = anchorValue
                /\ userMeetingTime =
                       IF anchorValue = EmptyString THEN EmptyString
                       ELSE convert(anchorValue, clientTimezone, userTimezone)

\* field B is the anchor at 16:00 and its own zone was changed to Kolkata:
\* field B still shows 16:00, field A (New York) was re-derived as 05:30
C2_Witness ==
    /\ Settled
    /\ lastEvent = "zoneClient"
    /\ lastEdited = "client"
    /\ clientTimezone = ZoneKolkata
    /\ userTimezone = ZoneNewYork
    /\ clientMeetingTime = V(16, 0)
    /\ userMeetingTime = V(5, 30)

AfterClear == AfterEdit /\ anchorValue = EmptyString

\* C3 as stated: a clear of either field leaves both fields empty and the
\* anchor side as it was before the clear.
C3_ClearKeepsAnchor ==
    (Settled /\ AfterClear) =>
        /\ userMeetingTime = EmptyString
        /\ clientMeetingTime = EmptyString
        /\ lastEdited = anchorBefore

\* C3, amended: a clear of either field leaves both fields empty and makes
\* the cleared field the anchor side, as any other edit of that field does.
C3_ClearAnchorsClearedField ==
    (Settled /\ AfterClear) =>
        /\ userMeetingTime = EmptyString
        /\ clientMeetingTime = EmptyString
        /\ lastEdited = (IF lastEvent = "editUser" THEN "user" ELSE "client")

\* field B was cleared while field A was the anchor
C3_Witness ==
    /\ Settled
    /\ lastEvent = "editClient"
    /\ anchorValue = EmptyString
    /\ anchorBefore = "user"
    /\ lastEdited = "client"
    /\ userMeetingTime = EmptyString
    /\ clientMeetingTime = EmptyString

\* C4: while the planner is shown, the anchor names the field of the most
\* recent edit event (A if there was none), whatever zone changes and ticks
\* happened since.
C4_AnchorIsLastEditedField ==
    phase = "live" =>
        lastEdited = (IF lastEditSide = "client" THEN "client" ELSE "user")

\* a zone change has settled after an edit of field B to 16:00
C4_Witness ==
    /\ Settled
    /\ AfterZoneChange
    /\ lastEditSide = "client"
    /\ anchorValue = V(16, 0)
    /\ lastEdited = "client"

\* the initial setup has run and settled, and no tick has moved the clock
\* since the session started
AfterStartup == Settled /\ lastEvent = "mount" /\ ticks = 0

\* the minute field of a wall-clock string
MinuteOf(s) == parseIsoLocal(s).min

\* the instant a wall-clock string names in a zone
InstantOf(s, zone) == localStringToDate(s, zone).time

\* C5 as stated: at startup the state is AnchoredOnA, field A is the next whole
\* hour in zone A (minute 00, after the current instant and at most one hour
\* after it), whatever zone A is, and field B is A converted to zone B.
C5_StartupNextWholeHour ==
    AfterStartup =>
        /\ lastEdited = "user"
        /\ MinuteOf(userMeetingTime) = 0
        /\ InstantOf(userMeetingTime, userTimezone) > clock
        /\ InstantOf(userMeetingTime, userTimezone) <= clock + HourSec
        /\ clientMeetingTime = convert(userMeetingTime, userTimezone, clientTimezone)

\* the hour field of a wall-clock string
HourOf(s) == parseIsoLocal(s).h

\* the date of a wall-clock string
DateFieldsOf(c) == << c.y, c.mon + 1, c.d >>

\* what the en-US formatter of localStringToDate reports for an instant
ReportedHour(t, zone) == partVal(FormatToPartsUS(t, zone, hourCycle), "hour")
ReportedDate(f) == << f.year, f.month, f.day >>

\* the field the effects and handlers derive, its zone, and the anchored field
DerivedField == IF lastEdited = "user" THEN clientMeetingTime ELSE userMeetingTime
DerivedZone == IF lastEdited = "user" THEN clientTimezone ELSE userTimezone
AnchorField == IF lastEdited = "user" THEN userMeetingTime ELSE clientMeetingTime
AnchorZone == IF lastEdited = "user" THEN userTimezone ELSE clientTimezone

\* C8: no meeting-time field ever holds hour 24.  Where the hour-24 formatter
\* reports hour 24 for the meeting's instant in the derived field's zone, the
\* derived field shows hour 00 of the day the formatter names; and the hour 24
\* the formatter reports inside localStringToDate is read as hour 0 of that
\* day, so that the derived field is the one an hour-0..23 platform derives.
C8_NeverHour24 ==
    /\ userMeetingTime # EmptyString => HourOf(userMeetingTime) \in 0..23
    /\ clientMeetingTime # EmptyString => HourOf(clientMeetingTime) \in 0..23
    /\ (Settled /\ AnchorField # EmptyString) =>
           /\ DerivedField =
                  dateToLocalString(
                      localStringToDateOn(AnchorField, AnchorZone, "h23"), DerivedZone)
           /\ ReportedHour(InstantOf(AnchorField, AnchorZone), DerivedZone) = 24 =>
                  /\ HourOf(DerivedField) = 0
                  /\ DateFieldsOf(parseIsoLocal(DerivedField)) =
                         ReportedDate(ZoneFields(InstantOf(AnchorField, AnchorZone),
                                                 DerivedZone))

\* on an hour-24 platform both fields are in Kolkata and field A was typed as
\* midnight: the formatter reports hour 24 while localStringToDate converges
\* and for the instant field B is rendered from, and field B shows 00:00 of
\* the same day
C8_Witness ==
    /\ Settled
    /\ hourCycle = "h24"
    /\ lastEdited = "user"
    /\ userTimezone = ZoneKolkata
    /\ clientTimezone = ZoneKolkata
    /\ userMeetingTime = InputValue(2024, 1, 15, 0, 0)
    /\ ReportedHour(InstantOf(userMeetingTime, userTimezone), clientTimezone) = 24
    /\ clientMeetingTime = InputValue(2024, 1, 15, 0, 0)

\* C10: with field A in New York and field B in London, field A anchored at
\* 2024-03-01T10:00 gives B = 2024-03-01T15:00; once an edit of B to
\* 2024-03-01T16:00 has settled, B is the anchor and still 16:00, and A is
\* 2024-03-01T11:00.
C10_AnchorSwitchScenario ==
    (Settled /\ userTimezone = ZoneNewYork /\ clientTimezone = ZoneLondon) =>
        /\ (lastEdited = "user" /\ userMeetingTime = V(10, 0)) =>
               clientMeetingTime = V(15, 0)
        /\ (lastEvent = "editClient" /\ anchorValue = V(16, 0)) =>
               /\ lastEdited = "client"
               /\ userMeetingTime = V(11, 0)
               /\ clientMeetingTime = V(16, 0)

\* field A was the anchor and the edit of B to 16:00 has settled
C10_Witness ==
    /\ Settled
    /\ userTimezone = ZoneNewYork
    /\ clientTimezone = ZoneLondon
    /\ lastEvent = "editClient"
    /\ anchorBefore = "user"
    /\ lastEdited = "client"
    /\ clientMeetingTime = V(16, 0)
    /\ userMeetingTime = V(11, 0)

\* the guess after one more shift: guess + (desiredTime - guessTime)
ShiftedGuess(guess, desiredTime, zone) ==
    guess + (desiredTime - GuessTime(guess, zone, hourCycle))

SecondGuess(d, zone) == ShiftedGuess(ShiftedGuess(d, d, zone), d, zone)
ThirdGuess(d, zone) == ShiftedGuess(SecondGuess(d, zone), d, zone)

\* none of the three iterations finds the difference below one second
NeverConverges(d, zone) ==
    /\ ShiftedGuess(d, d, zone) # d
    /\ SecondGuess(d, zone) # ShiftedGuess(d, d, zone)
    /\ ThirdGuess(d, zone) # SecondGuess(d, zone)

AnchorNaive == NaiveTime(parseIsoLocal(AnchorField))

\* C15: when the anchored value is one for which the loop uses up its three
\* iterations without converging, localStringToDate returns the guess after
\* the third shift as an ordinary Date, and the derived field is that instant
\* rendered in the derived field's zone (not empty, not left as it was).
C15_ExhaustedLoopReturnsLastGuess ==
    (Settled /\ AnchorField # EmptyString /\ NeverConverges(AnchorNaive, AnchorZone)) =>
        /\ localStringToDate(AnchorField, AnchorZone)
               = DateOf(ThirdGuess(AnchorNaive, AnchorZone))
        /\ DerivedField
               = dateToLocalString(DateOf(ThirdGuess(AnchorNaive, AnchorZone)),
                                   DerivedZone)
        /\ DerivedField # EmptyString

\* field A, in New York, was set to 02:30 on the day of the spring-forward
\* transition: the guesses are 07:30Z, 06:30Z, 07:30Z and field B, in London,
\* shows 07:30
C15_Witness ==
    /\ Settled
    /\ lastEdited = "user"
    /\ userTimezone = ZoneNewYork
    /\ clientTimezone = ZoneLondon
    /\ userMeetingTime = InputValue(2024, 3, 10, 2, 30)
    /\ NeverConverges(AnchorNaive, AnchorZone)
    /\ ThirdGuess(AnchorNaive, AnchorZone) = DateUTC(2024, 2, 10, 7, 30)
    /\ clientMeetingTime = InputValue(2024, 3, 10, 7, 30)

\* C20: a step of the shown planner that changes the displayed current
\* instant (a tick) sets it to the current instant and leaves both
\* meeting-time fields, the anchor side and both zones as they were, and it
\* leaves no run of the zone-change effect outstanding.
C20_TickOnlyAdvancesNow ==
    [][(phase = "live" /\ phase' = "live" /\ now' # now) =>
           /\ now' = DateOf(clock')
           /\ userMeetingTime' = userMeetingTime
           /\ clientMeetingTime' = clientMeetingTime
           /\ lastEdited' = lastEdited
           /\ userTimezone' = userTimezone
           /\ clientTimezone' = clientTimezone
           /\ effectPending' = effectPending
           /\ ~effectPending']_vars

\* a tick has run in a session in which field B was edited to 16:00 and the
\* zone of field A was changed to Kolkata
C20_Witness ==
    /\ Settled
    /\ ticks = 1
    /\ now = DateOf(clock)
    /\ lastEvent = "zoneUser"
    /\ lastEdited = "client"
    /\ userTimezone = ZoneKolkata
    /\ clientMeetingTime = V(16, 0)
    /\ userMeetingTime # EmptyString

\* a run of the zone-change effect in this state would change neither field
Stable == EffectClient = clientMeetingTime /\ EffectUser = userMeetingTime

\* C22: the synchronisation stabilises. After an edit or a zone change the
\* zone-change effect runs at most twice; the state a run leaves is one in
\* which a further run changes nothing, and so is every settled state; values
\* inside a gap or an overlap included.
C22_EffectStabilises ==
    /\ effectRuns <= 2
    /\ (phase = "live" /\ effectRuns >= 1) => Stable
    /\ Settled => Stable

\* field A, the anchor, holds 02:30 of New York's spring-forward day and its
\* zone was changed to New York: the first run of the effect has re-derived
\* field B, and the run still outstanding will change nothing
C22_Witness ==
    /\ effectPending
    /\ effectRuns = 1
    /\ Stable
    /\ lastEvent = "zoneUser"
    /\ lastEdited = "user"
    /\ userTimezone = ZoneNewYork
    /\ clientTimezone = ZoneLondon
    /\ userMeetingTime = InputValue(2024, 3, 10, 2, 30)
    /\ clientMeetingTime = InputValue(2024, 3, 10, 7, 30)

\* C23: in every settled state the two meeting-time fields are both empty or
\* both non-empty.
C23_FieldsEmptyTogether ==
    Settled => ((userMeetingTime = EmptyString) <=> (clientMeetingTime = EmptyString))

\* field B was cleared, which emptied field A, and the zone of field A was
\* then changed: both fields are still empty
C23_Witness ==
    /\ Settled
    /\ lastEvent = "zoneUser"
    /\ lastEdited = "client"
    /\ lastEditSide = "client"
    /\ anchorValue = EmptyString
    /\ userMeetingTime = EmptyString
    /\ clientMeetingTime = EmptyString

\* the zone of the field that is not the anchor was the last thing changed
OtherZoneChanged ==
    \/ lastEvent = "zoneClient" /\ anchorBefore = "user"
    \/ lastEvent = "zoneUser" /\ anchorBefore = "client"

\* the instant of the meeting: the anchored value read in the anchored
\* field's zone
MeetingInstant == localStringToDate(AnchorField, AnchorZone)

\* C24: no step of a change of the non-anchored field's zone (the selection
\* and the runs of the zone-change effect that follow it) changes the anchor
\* side, the anchored value or the anchored field's zone, so the instant
\* resolved from them is the same before and after; once the change has
\* settled the other field shows that instant in its new zone.
C24_OtherZoneKeepsInstant ==
    [][(phase = "live" /\ phase' = "live" /\ OtherZoneChanged'
            /\ AnchorField # EmptyString) =>
           /\ lastEdited' = lastEdited
           /\ AnchorField' = AnchorField
           /\ AnchorZone' = AnchorZone
           /\ hourCycle' = hourCycle
           /\ ~effectPending' =>
                  DerivedField' = dateToLocalString(MeetingInstant, DerivedZone')]_vars

\* field A is the anchor at 10:00 in New York and the zone of field B was
\* changed from London to Kolkata: field B went from 15:00 to 20:30, the
\* instant is still 15:00Z
C24_Witness ==
    /\ Settled
    /\ lastEvent = "zoneClient"
    /\ anchorBefore = "user"
    /\ lastEdited = "user"
    /\ userTimezone = ZoneNewYork
    /\ clientTimezone = ZoneKolkata
    /\ userMeetingTime = V(10, 0)
    /\ clientMeetingTime = V(20, 30)
    /\ MeetingInstant = DateOf(DateUTC(2024, 2, 1, 15, 0))

(***************************************************************************)
(* Properties of the key and of the drafting request (under SpecApp)       *)
(***************************************************************************)
StoredKey == localStorage[KeyItem]

\* C21: the storage holds no item but the API key; once the storage effect
\* has run, the stored key is the last non-empty value typed into the key
\* field since the page was loaded, if there is one (clearing the field
\* leaves the stored key as it is); and a freshly loaded page shows the
\* environment's key if set, else the stored key, else nothing.
C21_StoredKeyIsLastEntered ==
    /\ DOMAIN localStorage \subseteq {KeyItem}
    /\ (~storagePending /\ keyEntered # Null) =>
           HasItem(localStorage, KeyItem) /\ StoredKey = keyEntered.key
    /\ lastEvent = "load" =>
           apiKey = IF envKey # EmptyString THEN envKey
                    ELSE IF HasItem(localStorage, KeyItem) THEN StoredKey
                    ELSE EmptyString

\* the second key was typed over the first and the field then cleared: the
\* stored key is still the second
C21_Witness ==
    /\ ~storagePending
    /\ lastEvent = "key"
    /\ apiKey = EmptyString
    /\ keyEntered = [key |-> K2]
    /\ HasItem(localStorage, KeyItem)
    /\ StoredKey = K2

Clicks == {"generate", "regenerate"}
Blank(s) == Trim(s) = EmptyString
Requests == [emailContent : TextInputs, customInstructions : TextInputs]

\* C25: no call in flight carries an empty key; a click on either button
\* with an empty key sets the missing-key error and leaves isGenerating, the
\* response and the calls in flight as they were; and generateEmailResponse
\* given an empty key throws the missing-key error without constructing the
\* client, whatever the request.
C25_NoRequestWithoutKey ==
    /\ [](\A i \in DOMAIN inFlight :
             inFlight[i].pc = "awaiting" /\ inFlight[i].key # EmptyString)
    /\ [](\A request \in Requests :
             /\ generateEmailResponse(request, EmptyString).pc = "threw"
             /\ ~generateEmailResponse(request, EmptyString).client
             /\ generateEmailResponse(request, EmptyString).thrown
                    = Error(MissingKeyMessage))
    /\ [][(lastEvent' \in Clicks /\ apiKey = EmptyString) =>
             /\ error' = MissingKeyError
             /\ isGenerating' = isGenerating
             /\ ~isGenerating'
             /\ response' = response
             /\ inFlight' = inFlight]_vars

\* Generate was clicked with a customer email filled in and the key field
\* empty
C25_Witness ==
    /\ lastEvent = "generate"
    /\ apiKey = EmptyString
    /\ ~Blank(emailContent)
    /\ error = MissingKeyError
    /\ ~isGenerating
    /\ inFlight = << >>

Draft == [subject |-> "Re: order", body |-> "Hello<br/>Alex"]

\* the messages of the failures a call can end in
FailureMessages ==
    { "API key not valid", "Failed to generate response",
      "No response text generated", "Unexpected end of JSON input" }

\* C27: while a call is in flight isGenerating is true and response and error
\* are both null; the step in which a call settles leaves isGenerating false
\* and exactly one of response and error non-null: the parsed draft, or the
\* text 'Error: <message>.' for the message of the failure.
C27_SettledRequestShowsOneResult ==
    /\ [](inFlight # << >> => (isGenerating /\ response = Null /\ error = Null))
    /\ [][lastEvent' = "settle" =>
             /\ ~isGenerating'
             /\ (response' # Null) # (error' # Null)
             /\ response' # Null => response' = Draft
             /\ error' # Null =>
                    \E msg \in FailureMessages :
                        error' = [message |-> "Error: " \o msg \o "."]]_vars

\* a call has settled with an answer cut off in the middle
C27_Witness ==
    /\ lastEvent = "settle"
    /\ ~isGenerating
    /\ inFlight = << >>
    /\ response = Null
    /\ error = [message |-> "Error: Unexpected end of JSON input."]

\* C28: at most one call is in flight; while one is, Generate is disabled
\* and Regenerate is not rendered.
C28_OneRequestInFlight ==
    /\ Len(inFlight) <= 1
    /\ inFlight # << >> => (~GenerateEnabled /\ ~RegenerateShown)

\* Regenerate was clicked under a shown draft: one call is in flight
C28_Witness ==
    /\ lastEvent = "regenerate"
    /\ Len(inFlight) = 1
    /\ isGenerating
    /\ response = Null

\* C29 as stated: error and response are never both non-null.
C29_ErrorAndResponseExclusive == ~(error # Null /\ response # Null)

\* C30: every call made carries the reply prompt exactly when the request's
\* customer email is non-blank after trimming, and the new-email prompt
\* otherwise, for whatever request the prompt is built (both texts blank
\* included); a new-email prompt of a call made by App carries the request's
\* custom instructions, and they are non-blank.
C30_PromptKindFollowsEmail ==
    /\ \A request \in Requests :
           /\ PromptOf(request).kind \in {"reply", "new"}
           /\ PromptOf(request).kind = "reply" <=> ~Blank(request.emailContent)
    /\ \A i \in DOMAIN inFlight :
           /\ inFlight[i].prompt.kind \in {"reply", "new"}
           /\ inFlight[i].prompt.kind = "reply" <=> ~Blank(inFlight[i].request.emailContent)
           /\ inFlight[i].prompt.kind = "new" =>
                  /\ inFlight[i].prompt.instructions
                         = inFlight[i].request.customInstructions
                  /\ ~Blank(inFlight[i].prompt.instructions)

\* a call is in flight for a customer email of white space only: it carries
\* the new-email prompt with the instructions typed
C30_Witness ==
    /\ Len(inFlight) = 1
    /\ inFlight[1].request.emailContent = << " ", "\n" >>
    /\ inFlight[1].prompt.kind = "new"
    /\ inFlight[1].prompt.instructions = << " ", "h", "i", " " >>

(***************************************************************************)
(* Properties of the session with text inputs (under SpecText)             *)
(***************************************************************************)
\* C16 as stated: once an edit of a field to a non-empty string that is no
\* wall-clock value has settled, the other field is empty.
C16_UnparsableEditClearsOther ==
    (/\ Settled
     /\ AfterEdit
     /\ anchorValue # EmptyString
     /\ parseIsoLocal(anchorValue) = Null) => DerivedField = EmptyString

(***************************************************************************)
(* Properties of the conversion helpers (under SpecConv)                   *)
(***************************************************************************)
\* the zones whose offset never changes
ConstantZones == {z \in AllZones : Transitions(z) = << >>}

\* the instants at which the offset of zone changes
TransitionInstants(zone) == {Transitions(zone)[i].at : i \in 1..Len(Transitions(zone))}

\* the offsets zone ever has
ZoneOffsets(zone) ==
    {StdOffset(zone)} \cup {Transitions(zone)[i].offset : i \in 1..Len(Transitions(zone))}

\* the offsets under which the wall-clock time naive (its fields read as UTC)
\* occurs in zone: none inside a gap, two inside an overlap
OffsetsOfWall(naive, zone) == {o \in ZoneOffsets(zone) : Offset(zone, naive - o) = o}

\* within the two-hour buffer around a transition of zone
InWindow(t, zone) == \E T \in TransitionInstants(zone) : Abs(t - T) <= 2 * HourSec

\* C6: in a zone whose offset never changes, rendering the instant resolved
\* from a wall-clock value in that same zone gives back the value's fields
\* exactly.
C6_RoundTripConstantZone ==
    (cvPc \in {"rendered", "done"} /\ cvFrom = cvTo /\ cvFrom \in ConstantZones) =>
        /\ cvOut = cvWall
        /\ parseIsoLocal(cvOut) = parseIsoLocal(cvWall)

\* midnight of the last day of the year, in Kolkata, on an hour-24 platform
C6_Witness ==
    /\ cvPc = "rendered"
    /\ hourCycle = "h24"
    /\ cvFrom = ZoneKolkata
    /\ cvTo = ZoneKolkata
    /\ cvWall = InputValue(2024, 12, 31, 0, 0)
    /\ cvOut = InputValue(2024, 12, 31, 0, 0)

\* C7: when the instant a wall-clock value w resolves to in zone A is more
\* than two hours away from every transition of A and of B, converting w from
\* A to B and back gives w.
C7_RoundTripOutsideWindows ==
    (/\ cvPc = "done"
     /\ ~InWindow(cvInstant.time, cvFrom)
     /\ ~InWindow(cvInstant.time, cvTo)) => cvBack = cvWall

\* 05:30 in New York on the day of the spring-forward transition, two and a
\* half hours after it, converted to Sydney and back
C7_Witness ==
    /\ cvPc = "done"
    /\ cvFrom = ZoneNewYork
    /\ cvTo = ZoneSydney
    /\ cvWall = InputValue(2024, 3, 10, 5, 30)
    /\ ~InWindow(cvInstant.time, cvFrom)
    /\ ~InWindow(cvInstant.time, cvTo)
    /\ cvOut = InputValue(2024, 3, 10, 20, 30)
    /\ cvBack = cvWall

Scenario(wall, from, to, out) ==
    (cvPc \in {"rendered", "done"} /\ cvWall = wall /\ cvFrom = from /\ cvTo = to)
        => cvOut = out

\* C9: a wall-clock value that occurs exactly once in zone Z converts to UTC
\* as the value minus the offset Z has at that moment; in particular the three
\* scenarios: New York in January (UTC-5) and in July (UTC-4), Kolkata
\* (UTC+5:30).
C9_ConvertToUTC ==
    /\ (/\ cvPc \in {"rendered", "done"}
        /\ cvTo = ZoneUTC
        /\ Cardinality(OffsetsOfWall(NaiveTime(parseIsoLocal(cvWall)), cvFrom)) = 1)
       => \E o \in OffsetsOfWall(NaiveTime(parseIsoLocal(cvWall)), cvFrom) :
              NaiveTime(parseIsoLocal(cvOut)) = NaiveTime(parseIsoLocal(cvWall)) - o
    /\ Scenario(InputValue(2024, 1, 15, 14, 0), ZoneNewYork, ZoneUTC,
                InputValue(2024, 1, 15, 19, 0))
    /\ Scenario(InputValue(2024, 7, 15, 14, 0), ZoneNewYork, ZoneUTC,
                InputValue(2024, 7, 15, 18, 0))
    /\ Scenario(InputValue(2024, 1, 15, 9, 30), ZoneKolkata, ZoneUTC,
                InputValue(2024, 1, 15, 4, 0))

\* scenario 2: New York in July, daylight-saving time in force
C9_Witness ==
    /\ cvPc = "rendered"
    /\ cvWall = InputValue(2024, 7, 15, 14, 0)
    /\ cvFrom = ZoneNewYork
    /\ cvTo = ZoneUTC
    /\ cvOut = InputValue(2024, 7, 15, 18, 0)

\* the wall-clock value of the run, its fields read as UTC
WallNaive == NaiveTime(parseIsoLocal(cvWall))

\* the run has resolved its wall-clock value to an instant
RunResolved == cvPc \in {"resolved", "rendered", "done"} /\ cvInstant # Null

\* the size of the offset change at the i-th transition of zone
ShiftAt(zone, i) ==
    Abs(Transitions(zone)[i].offset
        - (IF i = 1 THEN StdOffset(zone) ELSE Transitions(zone)[i - 1].offset))

\* C11: a wall-clock value that exists in the zone (it is not inside a
\* spring-forward gap) resolves to an instant at which the zone's clock shows
\* exactly the requested fields, and which renders to the requested string,
\* also on the days of the zone's transitions.
C11_ConvergesForExistingWall ==
    (RunResolved /\ OffsetsOfWall(WallNaive, cvFrom) # {}) =>
        /\ cvInstant.time + Offset(cvFrom, cvInstant.time) = WallNaive
        /\ dateToLocalString(cvInstant, cvFrom) = cvWall

\* 03:30 in New York on the day of the spring-forward transition, half an hour
\* after the gap: the first guess is shifted twice
C11_Witness ==
    /\ RunResolved
    /\ cvFrom = ZoneNewYork
    /\ cvWall = InputValue(2024, 3, 10, 3, 30)
    /\ cvInstant = DateOf(DateUTC(2024, 2, 10, 7, 30))

\* C12: a wall-clock value inside a fall-back overlap (it occurs under two
\* offsets) resolves to the candidate instant that uses the offset the zone
\* has at the naive first guess, and that instant renders back to the value.
C12_OverlapUsesOffsetAtNaiveGuess ==
    (RunResolved /\ Cardinality(OffsetsOfWall(WallNaive, cvFrom)) = 2) =>
        /\ cvInstant.time = WallNaive - Offset(cvFrom, WallNaive)
        /\ Offset(cvFrom, cvInstant.time) = Offset(cvFrom, WallNaive)
        /\ dateToLocalString(cvInstant, cvFrom) = cvWall

\* 02:30 in Sydney on the day of the fall-back transition: the naive guess lies
\* after the transition, the later of the two candidates is returned
C12_Witness ==
    /\ RunResolved
    /\ cvFrom = ZoneSydney
    /\ cvWall = InputValue(2024, 4, 7, 2, 30)
    /\ Cardinality(OffsetsOfWall(WallNaive, cvFrom)) = 2
    /\ cvInstant = DateOf(DateUTC(2024, 3, 6, 16, 30))

\* C13: a wall-clock value inside a spring-forward gap resolves to an instant
\* no further from the transition instant than the size of the shift; it is
\* the requested value read under one of the zone's offsets (a provisional
\* guess of the loop, nothing more is applied to it) and it does not render
\* to the requested value.
C13_GapResolvesNearTransition ==
    (RunResolved /\ OffsetsOfWall(WallNaive, cvFrom) = {}) =>
        /\ \E i \in 1..Len(Transitions(cvFrom)) :
               Abs(cvInstant.time - Transitions(cvFrom)[i].at) <= ShiftAt(cvFrom, i)
        /\ cvInstant.time \in {WallNaive - o : o \in ZoneOffsets(cvFrom)}
        /\ dateToLocalString(cvInstant, cvFrom) # cvWall

\* 02:30 in New York on the day of the spring-forward transition: the result
\* is half an hour after the transition and renders to 03:30
C13_Witness ==
    /\ RunResolved
    /\ cvFrom = ZoneNewYork
    /\ cvWall = InputValue(2024, 3, 10, 2, 30)
    /\ OffsetsOfWall(WallNaive, cvFrom) = {}
    /\ cvInstant = DateOf(DateUTC(2024, 2, 10, 7, 30))
    /\ dateToLocalString(cvInstant, cvFrom) = InputValue(2024, 3, 10, 3, 30)

\* the run has rendered its instant for display in a zone the formatter knows
RunRendered == cvPc \in {"rendered", "done"}

\* C17 as stated: with an unresolvable zone in the source or the target
\* position, the conversion does not throw and the derived value is empty.
C17_UnresolvableZoneDegrades ==
    (cvPc # "start" /\ (~Resolvable(cvFrom) \/ ~Resolvable(cvTo))) =>
        /\ cvPc # "threw"
        /\ RunRendered => cvOut = EmptyString

\* C18: getAbbreviation returns a string for every instant and zone, the
\* empty string for a zone the formatter does not know; it never completes
\* by throwing.
C18_AbbreviationNeverThrows ==
    RunRendered =>
        /\ cvLabel # RangeError
        /\ cvLabel \in Seq(STRING)
        /\ ~Resolvable(cvTo) => cvLabel = EmptyString
        /\ Resolvable(cvTo) => cvLabel # EmptyString

\* an instant labelled in a zone the formatter does not know
C18_Witness ==
    /\ cvPc = "rendered"
    /\ cvInstant # Null
    /\ cvTo = ZoneUnresolvable
    /\ cvLabel = EmptyString

\* what the formatter reports for the run's instant in the target zone
RunShortName == TimeZoneNamePart(cvInstant.time, cvTo, "short")
RunLongName == TimeZoneNamePart(cvInstant.time, cvTo, "long")
RunOffsetName == TimeZoneNamePart(cvInstant.time, cvTo, "shortOffset")

\* all the capital letters of a name, in order
CapitalLetters(name) == SelectSeq(name, LAMBDA c : c \in UpperCase)

\* '<abbrev> (<offset>)', or just '<abbrev>' when it equals the offset
WithOffset(abbrev, offset) ==
    IF abbrev = offset THEN abbrev
    ELSE abbrev \o <<" ", "(">> \o offset \o <<")">>

\* the decision table of the label, given the acronym of the long name
TableLabel(shortName, offset, acronym) ==
    IF ~isOffsetLike(shortName) THEN WithOffset(shortName, offset)
    ELSE IF Len(acronym) >= 2 /\ Len(acronym) <= 5 THEN WithOffset(acronym, offset)
    ELSE offset

SixWordName ==
    << "V", "e", "r", "y", " ", "F", "a", "r", " ", "A", "w", "a", "y", " ",
    "I", "s", "l", "a", "n", "d", "s", " ", "S", "t", "a", "n", "d",
    "a", "r", "d", " ", "T", "i", "m", "e" >>

LoopRank ==
    CASE loop.pc = "call"    -> 2 * 3 + 2
      [] loop.pc = "test"    -> 2 * (3 - loop.i) + 1
      [] loop.pc = "queried" -> 2 * (3 - loop.i)
      [] OTHER               -> 0

\* C14: whatever offsets the formatter reports, a call of localStringToDate
\* queries the formatter at most 3 times and shifts its guess at most 3
\* times, and it returns: every step lowers the number of steps that can
\* still follow, which never falls below zero.  Against the zone's real
\* offsets the call returns what localStringToDate is defined to return.
C14_LoopTerminates ==
    /\ [](/\ loop.queries <= 3
          /\ loop.shifts <= 3
          /\ loop.shifts <= loop.queries
          /\ LoopRank >= 0
          /\ (loop.pc = "returned" /\ loop.real) =>
                 loop.result = localStringToDate(loop.s, loop.zone))
    /\ [][LoopRank' < LoopRank]_loop

\* a call that never converged: three formatter calls, three shifts, returned
C14_Witness ==
    /\ loop.pc = "returned"
    /\ loop.queries = 3
    /\ loop.shifts = 3
    /\ loop.result # Null

====
